---- MODULE Spec2Model ----
(***************************************************************************)
(* Model of crates/bevy_text/src/text.rs: the Text / TextSection /         *)
(* TextStyle / TextAlignment value types, their builders, the derive       *)
(* operations of TextStyle and the conversions of the two alignment enums  *)
(* to glyph_brush_layout.                                                  *)
(*                                                                         *)
(* Values: an f32 font size is modelled by the integer it equals (12 is    *)
(* 12.0), a Color by the name of its constant, a Handle<Font> by its id,   *)
(* a String by a TLA+ string.  Every TextSection owns its TextStyle; the   *)
(* owned style objects live in `heap` and a section holds the address of   *)
(* its own object, so that "cloned per section" and "shared by the         *)
(* sections" are different states.                                         *)
(***************************************************************************)
EXTENDS Integers, Sequences, FiniteSets, TLC

\* ------------------------------------------------------------------ bounds
MaxSections == 2
MaxFontId == 1

\* ------------------------------------------------------------ value domains
\* Handle<Font>::default(): the "no font loaded" handle
Handle_default == [id |-> 0]

Handles == {[id |-> n] : n \in 0..MaxFontId}

\* Handle<Font>::clone(): a handle to the same asset
Handle_clone(h) == [id |-> h.id]

Color_WHITE == "WHITE"
Color_PINK == "PINK"
Colors == {Color_WHITE, Color_PINK}

\* font sizes used by the callers: 12.0, 40.0, 60.0
FontSizes == {12, 40, 60}

\* contents handed to the builders
Values == {"", "hello ", "world!"}

HorizontalAlign == {"Left", "Center", "Right"}

VerticalAlign == {"Top", "Center", "Bottom"}

glyph_HorizontalAlign == {"glyph_brush_layout::HorizontalAlign::Left",
    "glyph_brush_layout::HorizontalAlign::Center",
    "glyph_brush_layout::HorizontalAlign::Right"}

glyph_VerticalAlign == {"glyph_brush_layout::VerticalAlign::Top",
    "glyph_brush_layout::VerticalAlign::Center",
    "glyph_brush_layout::VerticalAlign::Bottom"}

TextAlignment == [vertical : VerticalAlign, horizontal : HorizontalAlign]

TextStyle == [font : Handles, font_size : FontSizes, color : Colors]

\* S: Into<String> for &str / String: the same characters, as an owned String
into_String(v) == v

\* ----------------------------------------------------------------- defaults
Default_TextAlignment == [vertical |-> "Top", horizontal |-> "Left"]

Default_TextStyle_Zeroed == [font |-> Handle_default, font_size |-> 0, color |-> Color_WHITE]

Default_TextStyle == [font |-> Handle_default, font_size |-> 12, color |-> Color_WHITE]

\* #[derive(Default)] on Text: Vec::default() and TextAlignment::default();
\* no section, hence no owned style object
Default_Text == [sections |-> << >>, alignment |-> Default_TextAlignment,
                 heap |-> << >>]

\* #[derive(Clone)] on TextStyle: clones the handle, copies size and color
TextStyle_clone(s) ==
    [font |-> Handle_clone(s.font), font_size |-> s.font_size, color |-> s.color]

\* ----------------------------------------------------------------- builders
\* A built Text is the record of its two fields plus the style objects its
\* sections own: sections[i].style is the address in heap of section i's style.

with_section_DefaultAlignment(value, style, alignment) ==
    [sections  |-> << [value |-> into_String(value), style |-> 1] >>,
     alignment |-> Default_TextAlignment,
     heap      |-> << style >>]

\* Text::with_section: one section; the style argument is moved into it
with_section(value, style, alignment) ==
    [sections  |-> << [value |-> into_String(value), style |-> 1] >>,
     alignment |-> alignment,
     heap      |-> << style >>]

with_sections_Reversed(values, style, alignment) ==
    [sections  |-> [i \in 1..Len(values) |->
                      [value |-> into_String(values[Len(values) + 1 - i]),
                       style |-> i]],
     alignment |-> alignment,
     heap      |-> [i \in 1..Len(values) |-> TextStyle_clone(style)]]

with_sections_DefaultStyle(values, style, alignment) ==
    [sections  |-> [i \in 1..Len(values) |->
                      [value |-> into_String(values[i]), style |-> i]],
     alignment |-> alignment,
     heap      |-> [i \in 1..Len(values) |-> Default_TextStyle]]

with_sections_Shared(values, style, alignment) ==
    [sections  |-> [i \in 1..Len(values) |->
                      [value |-> into_String(values[i]), style |-> 1]],
     alignment |-> alignment,
     heap      |-> IF values = << >> THEN << >> ELSE << TextStyle_clone(style) >>]

\* Text::with_sections: values.into_iter().map(..).collect() keeps the order
\* and the length; every section gets its own clone of style
with_sections(values, style, alignment) ==
    [sections  |-> [i \in 1..Len(values) |->
                      [value |-> into_String(values[i]), style |-> i]],
     alignment |-> alignment,
     heap      |-> [i \in 1..Len(values) |-> TextStyle_clone(style)]]

\* ------------------------------------------------------- TextStyle methods
\* A call on &self is modelled by the pair (self after the call, returned
\* value).

\* TextStyle::new: clones the handle behind the reference
TextStyle_new(font, font_size, color) ==
    [font |-> Handle_clone(font), font_size |-> font_size, color |-> color]

clone_with_font_KeepsFont(self, font) ==
    [self |-> self,
     ret  |-> [font |-> Handle_clone(self.font), font_size |-> self.font_size,
               color |-> self.color]]

\* line 243 writes (*font).clone() on the by-value handle: the given handle
clone_with_font(self, font) ==
    [self |-> self,
     ret  |-> [font |-> Handle_clone(font), font_size |-> self.font_size,
               color |-> self.color]]

clone_with_font_size_InPlace(self, font_size) ==
    [self |-> [self EXCEPT !.font_size = font_size],
     ret  |-> [font |-> Handle_clone(self.font), font_size |-> font_size,
               color |-> self.color]]

clone_with_font_size(self, font_size) ==
    [self |-> self,
     ret  |-> [font |-> Handle_clone(self.font), font_size |-> font_size,
               color |-> self.color]]

clone_with_color_DefaultSize(self, color) ==
    [self |-> self,
     ret  |-> [font |-> Handle_clone(self.font), font_size |-> 12,
               color |-> color]]

clone_with_color(self, color) ==
    [self |-> self,
     ret  |-> [font |-> Handle_clone(self.font), font_size |-> self.font_size,
               color |-> color]]

\* The traits line 199 derives for TextStyle
TextStyle_derives == {"Clone", "Debug", "Reflect", "FromReflect"}

\* a == b on two TextStyle values: a derived PartialEq compares field by
\* field; without an implementation the comparison is rejected (E0369) and
\* has no value
TextStyle_eq(a, b) ==
    IF "PartialEq" \in TextStyle_derives
    THEN [status |-> "value",
          value  |-> (a.font.id = b.font.id /\ a.font_size = b.font_size
                      /\ a.color = b.color)]
    ELSE [status |-> "E0369", value |-> FALSE]

\* ------------------------------------------------------ enum conversions
From_HorizontalAlign_CenterAsLeft(val) ==
    CASE val = "Left"   -> "glyph_brush_layout::HorizontalAlign::Left"
      [] val = "Center" -> "glyph_brush_layout::HorizontalAlign::Left"
      [] val = "Right"  -> "glyph_brush_layout::HorizontalAlign::Right"

\* impl From<HorizontalAlign> for glyph_brush_layout::HorizontalAlign
From_HorizontalAlign(val) ==
    CASE val = "Left"   -> "glyph_brush_layout::HorizontalAlign::Left"
      [] val = "Center" -> "glyph_brush_layout::HorizontalAlign::Center"
      [] val = "Right"  -> "glyph_brush_layout::HorizontalAlign::Right"

\* impl From<VerticalAlign> for glyph_brush_layout::VerticalAlign
From_VerticalAlign(val) ==
    CASE val = "Top"    -> "glyph_brush_layout::VerticalAlign::Top"
      [] val = "Center" -> "glyph_brush_layout::VerticalAlign::Center"
      [] val = "Bottom" -> "glyph_brush_layout::VerticalAlign::Bottom"

\* -------------------------------------------------------------------- state
VARIABLES
    text,        \* the caller's Text: [sections, alignment, heap]
    built,       \* the constructor call that produced text, with its arguments
    mutated,     \* index of the section whose style the caller edited, 0 if none
    last,        \* the last operation on text
    self_style,  \* the TextStyle the derive operations are called on
    ret_style,   \* the TextStyle the last TextStyle operation returned
    pre_self,    \* self_style as it was when the last operation was called
    style_call,  \* the last TextStyle operation, with its argument
    eq_result,   \* outcome of the last self_style == ret_style
    align,       \* the caller's TextAlignment
    glyph_h,     \* last horizontal conversion: [from, to]
    glyph_v      \* last vertical conversion: [from, to]

textVars == << text, built, mutated, last >>

styleVars == << self_style, ret_style, pre_self, style_call, eq_result >>

alignVars == << align, glyph_h, glyph_v >>

vars == << text, built, mutated, last, self_style, ret_style, pre_self,
           style_call, eq_result, align, glyph_h, glyph_v >>

NotCompared == [status |-> "none", value |-> FALSE]

NotConverted == [from |-> "none", to |-> "none"]

\* the style section i of text owns
StyleAt(i) == text.heap[text.sections[i].style]

\* sequences of at most MaxSections contents
Contents == UNION {[1..n -> Values] : n \in 0..MaxSections}

Init ==
    /\ text = Default_Text
    /\ built = [fn |-> "Text::default"]
    /\ mutated = 0
    /\ last = "built"
    /\ self_style = Default_TextStyle
    /\ ret_style = Default_TextStyle
    /\ pre_self = Default_TextStyle
    /\ style_call = [fn |-> "TextStyle::default"]
    /\ eq_result = NotCompared
    /\ align = Default_TextAlignment
    /\ glyph_h = NotConverted
    /\ glyph_v = NotConverted

\* ------------------------------------------------------- actions on a Text
\* let text = Text::default();
TextDefault ==
    /\ text' = Default_Text
    /\ built' = [fn |-> "Text::default"]
    /\ mutated' = 0
    /\ last' = "built"
    /\ UNCHANGED << styleVars, alignVars >>

\* The caller's variable is built once and then edited: a builder runs on
\* the fresh (default) variable, TextDefault makes it fresh again.
Fresh == built.fn = "Text::default"

\* let text = Text::with_section(value, style, alignment);
WithSection ==
    /\ Fresh
    /\ \E value \in Values, style \in TextStyle, alignment \in TextAlignment :
        /\ text' = with_section(value, style, alignment)
        /\ built' = [fn |-> "with_section", values |-> << value >>,
                     style |-> style, alignment |-> alignment]
        /\ mutated' = 0
        /\ last' = "built"
        /\ UNCHANGED << styleVars, alignVars >>

\* let text = Text::with_sections(values, style, alignment);
WithSections ==
    /\ Fresh
    /\ \E values \in Contents, style \in TextStyle, alignment \in TextAlignment :
        /\ text' = with_sections(values, style, alignment)
        /\ built' = [fn |-> "with_sections", values |-> values,
                     style |-> style, alignment |-> alignment]
        /\ mutated' = 0
        /\ last' = "built"
        /\ UNCHANGED << styleVars, alignVars >>

\* The caller edits the style of one section, i, through the public fields;
\* the write goes to the style object that section holds.
CanEdit(i) == i \in 1..Len(text.sections) /\ mutated \in {0, i}

\* text.sections[i].style.font = font;
SetFont ==
    \E i \in 1..MaxSections, font \in Handles :
        /\ CanEdit(i)
        /\ text' = [text EXCEPT !.heap[text.sections[i].style].font = font]
        /\ mutated' = i
        /\ last' = "set_font"
        /\ UNCHANGED << built, styleVars, alignVars >>

\* text.sections[i].style.font_size = font_size;
SetFontSize ==
    \E i \in 1..MaxSections, font_size \in FontSizes :
        /\ CanEdit(i)
        /\ text' = [text EXCEPT !.heap[text.sections[i].style].font_size = font_size]
        /\ mutated' = i
        /\ last' = "set_font_size"
        /\ UNCHANGED << built, styleVars, alignVars >>

\* text.sections[i].style.color = color;
SetColor ==
    \E i \in 1..MaxSections, color \in Colors :
        /\ CanEdit(i)
        /\ text' = [text EXCEPT !.heap[text.sections[i].style].color = color]
        /\ mutated' = i
        /\ last' = "set_color"
        /\ UNCHANGED << built, styleVars, alignVars >>

\* text.sections[i].style = TextStyle::default();
SetStyleDefault ==
    \E i \in 1..MaxSections :
        /\ CanEdit(i)
        /\ text' = [text EXCEPT !.heap[text.sections[i].style] = Default_TextStyle]
        /\ mutated' = i
        /\ last' = "set_style_default"
        /\ UNCHANGED << built, styleVars, alignVars >>

Next ==
    \/ TextDefault
    \/ WithSection
    \/ WithSections
    \/ SetFont
    \/ SetFontSize
    \/ SetColor
    \/ SetStyleDefault

Spec == Init /\ [][Next]_vars

\* -------------------------------------------------- actions on a TextStyle
\* let base_style = TextStyle::default();
StyleDefault ==
    /\ self_style' = Default_TextStyle
    /\ ret_style' = Default_TextStyle
    /\ pre_self' = Default_TextStyle
    /\ style_call' = [fn |-> "TextStyle::default"]
    /\ eq_result' = NotCompared
    /\ UNCHANGED << textVars, alignVars >>

\* let base_style = TextStyle::new(&font, font_size, color);
StyleNew ==
    \E font \in Handles, font_size \in FontSizes, color \in Colors :
        /\ self_style' = TextStyle_new(font, font_size, color)
        /\ ret_style' = self_style'
        /\ pre_self' = self_style'
        /\ style_call' = [fn |-> "TextStyle::new", font |-> font,
                          font_size |-> font_size, color |-> color]
        /\ eq_result' = NotCompared
        /\ UNCHANGED << textVars, alignVars >>

\* let new_style = base_style.clone_with_font(font);
CloneWithFont ==
    \E font \in Handles :
        LET r == clone_with_font(self_style, font) IN
        /\ pre_self' = self_style
        /\ self_style' = r.self
        /\ ret_style' = r.ret
        /\ style_call' = [fn |-> "clone_with_font", font |-> font]
        /\ eq_result' = NotCompared
        /\ UNCHANGED << textVars, alignVars >>

\* let new_style = base_style.clone_with_font_size(font_size);
CloneWithFontSize ==
    \E font_size \in FontSizes :
        LET r == clone_with_font_size(self_style, font_size) IN
        /\ pre_self' = self_style
        /\ self_style' = r.self
        /\ ret_style' = r.ret
        /\ style_call' = [fn |-> "clone_with_font_size", font_size |-> font_size]
        /\ eq_result' = NotCompared
        /\ UNCHANGED << textVars, alignVars >>

\* let new_style = base_style.clone_with_color(color);
CloneWithColor ==
    \E color \in Colors :
        LET r == clone_with_color(self_style, color) IN
        /\ pre_self' = self_style
        /\ self_style' = r.self
        /\ ret_style' = r.ret
        /\ style_call' = [fn |-> "clone_with_color", color |-> color]
        /\ eq_result' = NotCompared
        /\ UNCHANGED << textVars, alignVars >>

\* assert_eq!(base_style, new_style) / assert_ne!(base_style, new_style)
Compare ==
    /\ eq_result' = TextStyle_eq(self_style, ret_style)
    /\ UNCHANGED << self_style, ret_style, pre_self, style_call, textVars, alignVars >>

NextStyle ==
    \/ StyleDefault
    \/ StyleNew
    \/ CloneWithFont
    \/ CloneWithFontSize
    \/ CloneWithColor
    \/ Compare

SpecStyle == Init /\ [][NextStyle]_vars

\* ---------------------------------------------- actions on a TextAlignment
\* let alignment = TextAlignment::default();
AlignDefault ==
    /\ align' = Default_TextAlignment
    /\ UNCHANGED << glyph_h, glyph_v, textVars, styleVars >>

\* alignment.horizontal = h;
SetHorizontal ==
    \E h \in HorizontalAlign :
        /\ align' = [align EXCEPT !.horizontal = h]
        /\ UNCHANGED << glyph_h, glyph_v, textVars, styleVars >>

\* alignment.vertical = v;
SetVertical ==
    \E v \in VerticalAlign :
        /\ align' = [align EXCEPT !.vertical = v]
        /\ UNCHANGED << glyph_h, glyph_v, textVars, styleVars >>

\* the layout engine's h_align: alignment.horizontal.into()
ConvertHorizontal ==
    /\ glyph_h' = [from |-> align.horizontal,
                   to |-> From_HorizontalAlign(align.horizontal)]
    /\ UNCHANGED << align, glyph_v, textVars, styleVars >>

\* the layout engine's v_align: alignment.vertical.into()
ConvertVertical ==
    /\ glyph_v' = [from |-> align.vertical,
                   to |-> From_VerticalAlign(align.vertical)]
    /\ UNCHANGED << align, glyph_h, textVars, styleVars >>

NextAlign ==
    \/ AlignDefault
    \/ SetHorizontal
    \/ SetVertical
    \/ ConvertHorizontal
    \/ ConvertVertical

SpecAlign == Init /\ [][NextAlign]_vars

\* ---------------------------------------------------------------- properties

\* C1: Text::with_sections(contents, style, alignment) has exactly as many
\* sections as contents has items and sections[i].value = contents[i] for
\* every i (order kept, nothing dropped or duplicated); empty contents give
\* zero sections.
C1_SectionsFollowContents ==
    built.fn = "with_sections" =>
        /\ Len(text.sections) = Len(built.values)
        /\ \A i \in 1..Len(built.values) : text.sections[i].value = built.values[i]
        /\ (built.values = << >> => text.sections = << >>)

C1_Witness ==
    /\ built.fn = "with_sections"
    /\ last = "built"
    /\ Len(built.values) = 2
    /\ built.values[1] # built.values[2]

\* C2: every section produced by Text::with_sections(contents, S, A) has a
\* style equal to S, so any two sections have equal styles, and the result's
\* alignment is A.
C2_UniformStyle ==
    (built.fn = "with_sections" /\ last = "built") =>
        /\ \A i \in 1..Len(text.sections) : StyleAt(i) = built.style
        /\ \A i, j \in 1..Len(text.sections) : StyleAt(i) = StyleAt(j)
        /\ text.alignment = built.alignment

C2_Witness ==
    /\ built.fn = "with_sections"
    /\ last = "built"
    /\ Len(text.sections) = 2
    /\ built.style # Default_TextStyle
    /\ built.alignment # Default_TextAlignment

\* C3: the sections built by Text::with_sections own separate copies of the
\* style: after any sequence of replacements of the font, font_size or color
\* of sections[i].style, every other section j # i still has the style
\* passed to the builder and its value, and the number and order of the
\* sections are unchanged.
C3_EditsStayInOneSection ==
    (built.fn = "with_sections" /\ mutated # 0) =>
        /\ Len(text.sections) = Len(built.values)
        /\ \A j \in 1..Len(text.sections) :
              /\ text.sections[j].value = built.values[j]
              /\ j # mutated => StyleAt(j) = built.style

C3_Witness ==
    /\ built.fn = "with_sections"
    /\ Len(text.sections) = 2
    /\ mutated = 1
    /\ StyleAt(1).font # built.style.font
    /\ StyleAt(1).font_size # built.style.font_size
    /\ StyleAt(1).color # built.style.color

\* C8: Text::with_section(content, S, A) has exactly one section, whose
\* value is content and whose style is S, and alignment A; no input is
\* rejected.
C8_SingleSection ==
    (built.fn = "with_section" /\ last = "built") =>
        /\ Len(text.sections) = 1
        /\ text.sections[1].value = built.values[1]
        /\ StyleAt(1) = built.style
        /\ text.alignment = built.alignment

C8_Witness ==
    /\ built.fn = "with_section"
    /\ last = "built"
    /\ built.values = << "hello " >>
    /\ built.style = [font |-> [id |-> 1], font_size |-> 60, color |-> "WHITE"]
    /\ built.alignment = [vertical |-> "Center", horizontal |-> "Center"]

\* C10: the default TextStyle is the default font handle, font_size 12.0 and
\* white; the default TextAlignment is horizontal Left, vertical Top; the
\* default Text has zero sections and the default alignment.
C10_Defaults ==
    /\ built.fn = "Text::default" =>
          /\ text.sections = << >>
          /\ text.alignment = [vertical |-> "Top", horizontal |-> "Left"]
    /\ last = "set_style_default" =>
          StyleAt(mutated) = [font |-> [id |-> 0], font_size |-> 12,
                              color |-> "WHITE"]

C10_Witness ==
    /\ last = "set_style_default"
    /\ built.style.font # Handle_default
    /\ built.style.font_size # 12
    /\ built.style.color # Color_WHITE

C5_CloneWithFontSize ==
    style_call.fn = "clone_with_font_size" =>
        /\ ret_style.font_size = style_call.font_size
        /\ ret_style.font.id = pre_self.font.id
        /\ ret_style.color = pre_self.color
        /\ self_style = pre_self
        /\ (style_call.font_size # pre_self.font_size => ret_style # self_style)

C5_Witness ==
    /\ style_call.fn = "clone_with_font_size"
    /\ style_call.font_size # pre_self.font_size
    /\ pre_self.font # Handle_default

C9_StructuralEquality ==
    eq_result.status # "none" =>
        /\ eq_result.status = "value"
        /\ eq_result.value <=> (/\ self_style.font.id = ret_style.font.id
                                /\ self_style.font_size = ret_style.font_size
                                /\ self_style.color = ret_style.color)

\* C7: the conversions of HorizontalAlign and VerticalAlign are total and
\* injective: Left, Center, Right go to the external Left, Center, Right and
\* Top, Center, Bottom to the external Top, Center, Bottom; no variant is
\* unmapped, no two share a target, none reaches a default or an error.
C7_ConversionTotalInjective ==
    /\ glyph_h.from # "none" =>
          /\ glyph_h.to \in glyph_HorizontalAlign
          /\ glyph_h.from = "Left" =>
                glyph_h.to = "glyph_brush_layout::HorizontalAlign::Left"
          /\ glyph_h.from = "Center" =>
                glyph_h.to = "glyph_brush_layout::HorizontalAlign::Center"
          /\ glyph_h.from = "Right" =>
                glyph_h.to = "glyph_brush_layout::HorizontalAlign::Right"
    /\ glyph_v.from # "none" =>
          /\ glyph_v.to \in glyph_VerticalAlign
          /\ glyph_v.from = "Top" =>
                glyph_v.to = "glyph_brush_layout::VerticalAlign::Top"
          /\ glyph_v.from = "Center" =>
                glyph_v.to = "glyph_brush_layout::VerticalAlign::Center"
          /\ glyph_v.from = "Bottom" =>
                glyph_v.to = "glyph_brush_layout::VerticalAlign::Bottom"
    /\ \A a, b \in HorizontalAlign :
          a # b => From_HorizontalAlign(a) # From_HorizontalAlign(b)
    /\ \A a, b \in VerticalAlign :
          a # b => From_VerticalAlign(a) # From_VerticalAlign(b)

C7_Witness ==
    /\ glyph_h.from = "Center"
    /\ glyph_v.from = "Bottom"
    /\ align = [vertical |-> "Bottom", horizontal |-> "Center"]
====
